---- MODULE Spec2Model ----
(***************************************************************************)
(* Model of two presentational React Native components:                    *)
(*   - NuggetCardInteraction (the card's comment / helpful / share / save  *)
(*     toolbar), and                                                       *)
(*   - BottomTabIcon with its getIconName mapping.                         *)
(*                                                                         *)
(* Props are JavaScript objects: a function whose DOMAIN holds exactly the *)
(* props the caller supplied (an omitted optional prop is an absent key).  *)
(* A rendered tree is a function from the names of the rendered controls   *)
(* to their element records; the empty function <<>> is "not rendered".    *)
(* Text is a sequence of one-character strings; a phrase returned by the   *)
(* translation function t(key) is the one-element sequence <<key>>.        *)
(* Dimensions are Px(n) for a number and Theme(s) for a theme constant     *)
(* whose value is set outside these sources.                               *)
(***************************************************************************)
EXTENDS Integers, Sequences, FiniteSets, TLC

VARIABLES props, tree, calls, taps, threw, tabProps, tabTree

vars == <<props, tree, calls, taps, threw, tabProps, tabTree>>

cardVars == <<props, tree, calls, taps, threw>>

tabVars == <<tabProps, tabTree>>

(***************************************************************************)
(* Bounds.                                                                 *)
(***************************************************************************)
\* largest helpfulCount / commentCount the caller passes in RenderSpec
MaxCount == 11

\* largest helpfulCount / commentCount the caller passes in Spec
TapMaxCount == 1

\* number of taps in one behaviour of Spec
MaxTaps == 2

(***************************************************************************)
(* Program constants.                                                      *)
(***************************************************************************)
IconSize == 20

(***************************************************************************)
(* Helpers: dimensions, text, optional props.                              *)
(***************************************************************************)
Px(n) == [px |-> n]

Theme(s) == [theme |-> s]

\* t(key) of react-i18next: the localized phrase for key, an opaque token
t(key) == <<key>>

Digit(d) ==
  CASE d = 0 -> "0" [] d = 1 -> "1" [] d = 2 -> "2" [] d = 3 -> "3"
    [] d = 4 -> "4" [] d = 5 -> "5" [] d = 6 -> "6" [] d = 7 -> "7"
    [] d = 8 -> "8" [] d = 9 -> "9"

RECURSIVE NumberToString(_)
\* the decimal text JavaScript gives a non-negative integer in a template
\* literal or as a JSX child
NumberToString(n) ==
  IF n < 10 THEN <<Digit(n)>>
  ELSE NumberToString(n \div 10) \o <<Digit(n % 10)>>

\* the value of an optional prop as passed on to a child element: <<v>> when
\* the caller supplied it, <<>> when it is undefined
Opt(p, k) == IF k \in DOMAIN p THEN <<p[k]>> ELSE <<>>

\* destructuring default: hideCommentButton = false
HideCommentButton(p) ==
  IF "hideCommentButton" \in DOMAIN p THEN p.hideCommentButton ELSE FALSE

(***************************************************************************)
(* StyleSheet of NuggetCardInteraction: the styles of the four controls.   *)
(***************************************************************************)
StyleActionButton ==
  [flexDirection |-> "row", alignItems |-> "center",
   paddingVertical |-> Theme("spacing.xs"), marginLeft |-> Theme("spacing.m")]

StyleIconWithCountButton ==
  [flexDirection |-> "row", alignItems |-> "center",
   paddingVertical |-> Theme("spacing.xs")]

StyleIconOnlyButton ==
  [padding |-> Theme("spacing.xs"), justifyContent |-> "center",
   alignItems |-> "center", marginLeft |-> Theme("spacing.l")]

RECURSIVE StyleValue(_, _, _)
\* the value a style array gives a key: the last entry that sets it wins,
\* dflt when none does
StyleValue(style, key, dflt) ==
  IF style = <<>> THEN dflt
  ELSE IF key \in DOMAIN style[Len(style)] THEN style[Len(style)][key]
  ELSE StyleValue(SubSeq(style, 1, Len(style) - 1), key, dflt)

(***************************************************************************)
(* NuggetCardInteraction: the four controls.                               *)
(***************************************************************************)
\* a slip: the count is rendered without the zero test
CommentCountTextAlways(commentCount) == NumberToString(commentCount)

CommentCountText(commentCount) ==
  IF commentCount > 0 THEN NumberToString(commentCount) ELSE <<>>

CommentLabel(commentCount) ==
  (IF commentCount > 0 THEN NumberToString(commentCount)
   ELSE t("nugget.interaction.noComments"))
    \o <<" ">> \o t("nugget.interaction.comments")

CommentButton(p) ==
  [group |-> "left",
   style |-> <<StyleIconWithCountButton>>,
   onPress |-> Opt(p, "onCommentPress"),
   accessible |-> TRUE,
   accessibilityRole |-> "button",
   accessibilityLabel |-> CommentLabel(p.commentCount),
   icon |-> [family |-> "Ionicons", name |-> "chatbubble-outline",
             size |-> Px(IconSize), color |-> "colors.textSecondary"],
   text |-> [color |-> "colors.textSecondary",
             children |-> CommentCountText(p.commentCount)]]

\* a slip: >= in place of >
HelpfulTextFromZero(helpfulCount) ==
  t("nugget.interaction.thatHelps") \o <<" ">>
    \o (IF helpfulCount >= 0
        THEN <<"(">> \o NumberToString(helpfulCount) \o <<")">>
        ELSE <<>>)

HelpfulText(helpfulCount) ==
  t("nugget.interaction.thatHelps") \o <<" ">>
    \o (IF helpfulCount > 0
        THEN <<"(">> \o NumberToString(helpfulCount) \o <<")">>
        ELSE <<>>)

\* a slip: the margin override is left out
HelpfulStyleFixed(hide) == <<StyleActionButton>>

HelpfulStyle(hide) ==
  <<StyleActionButton>> \o (IF hide THEN <<[marginLeft |-> Px(0)]>> ELSE <<>>)

\* a slip: the text keeps the secondary colour in both variants
HelpfulTextColorFixed(isHelpful) == "colors.textSecondary"

HelpfulTextColor(isHelpful) ==
  IF isHelpful THEN "colors.primary" ELSE "colors.textSecondary"

HelpfulButton(p) ==
  [group |-> "left",
   style |-> HelpfulStyle(HideCommentButton(p)),
   onPress |-> Opt(p, "onHelpfulPress"),
   accessible |-> TRUE,
   accessibilityRole |-> "button",
   accessibilityLabel |-> (IF p.isHelpful THEN t("nugget.interaction.helpful")
                           ELSE t("nugget.interaction.markHelpful")),
   accessibilityState |-> [selected |-> p.isHelpful],
   icon |-> [family |-> "MaterialCommunityIcons",
             name |-> (IF p.isHelpful THEN "thumb-up" ELSE "thumb-up-outline"),
             size |-> Px(IconSize),
             color |-> (IF p.isHelpful THEN "colors.primary"
                        ELSE "colors.textSecondary")],
   text |-> [color |-> HelpfulTextColor(p.isHelpful),
             children |-> HelpfulText(p.helpfulCount)]]

\* a slip: the share control is wired to the save callback
ShareOnPressSave(p) == Opt(p, "onSavePress")

ShareOnPress(p) == Opt(p, "onSharePress")

ShareButton(p) ==
  [group |-> "right",
   style |-> <<StyleIconOnlyButton>>,
   onPress |-> ShareOnPress(p),
   accessible |-> TRUE,
   accessibilityRole |-> "button",
   accessibilityLabel |-> t("nugget.interaction.share"),
   icon |-> [family |-> "Ionicons", name |-> "paper-plane-outline",
             size |-> Px(IconSize), color |-> "colors.textSecondary",
             rotate |-> "20deg"]]

\* a slip: the save control is given no onPress
SaveOnPressNone(p) == <<>>

SaveOnPress(p) == Opt(p, "onSavePress")

\* a slip: the two labels are swapped
SaveLabelSwapped(isSaved) ==
  IF isSaved THEN t("nugget.interaction.save") ELSE t("profile.nuggetSaved")

SaveLabel(isSaved) ==
  IF isSaved THEN t("profile.nuggetSaved") ELSE t("nugget.interaction.save")

SaveButton(p) ==
  [group |-> "right",
   style |-> <<StyleIconOnlyButton>>,
   onPress |-> SaveOnPress(p),
   accessible |-> TRUE,
   accessibilityRole |-> "button",
   accessibilityLabel |-> SaveLabel(p.isSaved),
   accessibilityState |-> [selected |-> p.isSaved],
   icon |-> [family |-> "Ionicons",
             name |-> (IF p.isSaved THEN "bookmark" ELSE "bookmark-outline"),
             size |-> Px(IconSize),
             color |-> (IF p.isSaved THEN "colors.primary"
                        ELSE "colors.textSecondary")]]

\* the controls the returned tree contains
RenderedControls(p) ==
  (IF ~HideCommentButton(p) THEN {"comment"} ELSE {})
    \cup {"helpful", "share", "save"}

\* the view tree NuggetCardInteraction returns for props p
NuggetCardInteraction(p) ==
  [c \in RenderedControls(p) |->
     CASE c = "comment" -> CommentButton(p)
       [] c = "helpful" -> HelpfulButton(p)
       [] c = "share" -> ShareButton(p)
       [] c = "save" -> SaveButton(p)]

(***************************************************************************)
(* Pressing a control.                                                     *)
(***************************************************************************)
\* TouchableOpacity: a press calls the element's onPress when one is defined
\* and does nothing when it is undefined
Press(el) == [invoked |-> el.onPress, threw |-> FALSE]

\* how often a press invoked callback f
Invocations(f, invoked) ==
  Cardinality({i \in 1..Len(invoked) : invoked[i] = f})

(***************************************************************************)
(* BottomTabIcon.                                                          *)
(***************************************************************************)
\* a slip: the case for 'chat' is missing
getIconNameNoChat(name) ==
  CASE name = "home" -> "home"
    [] name = "folder" -> "folder"
    [] name = "ai" -> "hardware-chip"
    [] OTHER -> "help-circle"

getIconName(name) ==
  CASE name = "home" -> "home"
    [] name = "folder" -> "folder"
    [] name = "chat" -> "chatbubble"
    [] name = "ai" -> "hardware-chip"
    [] OTHER -> "help-circle"

\* a slip: the label is the resolved glyph id
TabLabelGlyph(name, iconName) == iconName

\* accessibilityLabel={name}
TabLabel(name, iconName) == name

\* the view tree BottomTabIcon returns for props p
BottomTabIcon(p) ==
  LET iconName == getIconName(p.name)
  IN [style |-> Opt(p, "style"),
      accessible |-> TRUE,
      accessibilityRole |-> "image",
      accessibilityLabel |-> TabLabel(p.name, iconName),
      icon |-> [family |-> "Ionicons",
                name |-> iconName,
                color |-> p.color,
                size |-> (IF "size" \in DOMAIN p THEN Px(p.size)
                          ELSE Theme("ui.icon.large"))]]

(***************************************************************************)
(* The props a caller can pass.                                            *)
(***************************************************************************)
CallbackProps ==
  {"onHelpfulPress", "onCommentPress", "onSharePress", "onSavePress"}

OptionalProps == CallbackProps \cup {"hideCommentButton"}

RequiredProps == {"helpfulCount", "commentCount", "isHelpful", "isSaved"}

Controls == {"comment", "helpful", "share", "save"}

\* NuggetCardInteractionProps with counts in 0..maxc; a callback prop that is
\* supplied holds the caller's function of that name
PropsSpace(maxc) ==
  UNION {
    { [k \in RequiredProps \cup O |->
         CASE k = "helpfulCount" -> q[1]
           [] k = "commentCount" -> q[2]
           [] k = "isHelpful" -> q[3]
           [] k = "isSaved" -> q[4]
           [] k = "hideCommentButton" -> q[5]
           [] OTHER -> k]
      : q \in (0..maxc) \X (0..maxc) \X BOOLEAN \X BOOLEAN \X BOOLEAN }
    : O \in SUBSET OptionalProps }

\* the values a caller can give one prop
PropValues(k, maxc) ==
  CASE k \in {"helpfulCount", "commentCount"} -> 0..maxc
    [] k \in {"isHelpful", "isSaved", "hideCommentButton"} -> BOOLEAN
    [] OTHER -> {k}

\* tab names: the four of the type, and strings outside it
TabNames ==
  {"home", "folder", "chat", "ai",
   "", "Home", "settings", "chatbubble", "help-circle"}

TabPropValues(k) ==
  CASE k = "name" -> TabNames
    [] k = "color" -> {"#000000", "#0a7ea4"}
    [] k = "size" -> {24, 32}
    [] OTHER -> {"styleOverride"}

TabOptionalProps == {"size", "style"}

\* BottomTabIconProps
TabPropsSpace ==
  UNION {
    { [k \in {"name", "color"} \cup O |->
         CASE k = "name" -> q[1]
           [] k = "color" -> q[2]
           [] k = "size" -> q[3]
           [] OTHER -> q[4]]
      : q \in TabPropValues("name") \X TabPropValues("color")
                \X TabPropValues("size") \X TabPropValues("style") }
    : O \in SUBSET TabOptionalProps }

SetProp(p, k, v) == [j \in DOMAIN p \cup {k} |-> IF j = k THEN v ELSE p[j]]

DropProp(p, k) == [j \in DOMAIN p \ {k} |-> p[j]]

(***************************************************************************)
(* Actions of NuggetCardInteraction.                                       *)
(***************************************************************************)
\* one call of the component function with props p
Render(p) ==
  /\ props' = p
  /\ tree' = NuggetCardInteraction(p)
  /\ UNCHANGED <<calls, taps, threw, tabVars>>

\* the first render
Mount ==
  /\ tree = <<>>
  /\ Render(props)

\* the caller renders again with one prop set to a value
RerenderSet(maxc) ==
  /\ tree # <<>>
  /\ \E k \in RequiredProps \cup OptionalProps :
       \E v \in PropValues(k, maxc) : Render(SetProp(props, k, v))

\* the caller renders again with one optional prop left out
RerenderDrop ==
  /\ tree # <<>>
  /\ \E k \in OptionalProps \cap DOMAIN props : Render(DropProp(props, k))

\* a slip: the component keeps the saved and helpful flags itself and flips
\* them on a tap
TapOptimistic(c) ==
  /\ c \in DOMAIN tree
  /\ taps["comment"] + taps["helpful"] + taps["share"] + taps["save"] < MaxTaps
  /\ LET r == Press(tree[c])
         q == CASE c = "save" -> SetProp(props, "isSaved", ~props.isSaved)
                [] c = "helpful" ->
                     SetProp(props, "isHelpful", ~props.isHelpful)
                [] OTHER -> props
     IN /\ calls' = [f \in CallbackProps |->
                       calls[f] + Invocations(f, r.invoked)]
        /\ threw' = (threw \/ r.threw)
        /\ tree' = NuggetCardInteraction(q)
  /\ taps' = [taps EXCEPT ![c] = @ + 1]
  /\ UNCHANGED <<props, tabVars>>

\* the user taps rendered control c
Tap(c) ==
  /\ c \in DOMAIN tree
  /\ taps["comment"] + taps["helpful"] + taps["share"] + taps["save"] < MaxTaps
  /\ LET r == Press(tree[c])
     IN /\ calls' = [f \in CallbackProps |->
                       calls[f] + Invocations(f, r.invoked)]
        /\ threw' = (threw \/ r.threw)
  /\ taps' = [taps EXCEPT ![c] = @ + 1]
  /\ UNCHANGED <<props, tree, tabVars>>

(***************************************************************************)
(* Actions of BottomTabIcon.                                               *)
(***************************************************************************)
TabRender(p) ==
  /\ tabProps' = p
  /\ tabTree' = BottomTabIcon(p)
  /\ UNCHANGED cardVars

TabMount ==
  /\ tabTree = <<>>
  /\ TabRender(tabProps)

TabRerenderSet ==
  /\ tabTree # <<>>
  /\ \E k \in {"name", "color"} \cup TabOptionalProps :
       \E v \in TabPropValues(k) : TabRender(SetProp(tabProps, k, v))

TabRerenderDrop ==
  /\ tabTree # <<>>
  /\ \E k \in TabOptionalProps \cap DOMAIN tabProps :
       TabRender(DropProp(tabProps, k))

(***************************************************************************)
(* Specifications.                                                         *)
(***************************************************************************)
NoCalls == [f \in CallbackProps |-> 0]

NoTaps == [c \in Controls |-> 0]

CardIdle ==
  /\ props = [helpfulCount |-> 0, commentCount |-> 0,
              isHelpful |-> FALSE, isSaved |-> FALSE]
  /\ tree = <<>>
  /\ calls = NoCalls
  /\ taps = NoTaps
  /\ threw = FALSE

TabIdle ==
  /\ tabProps = [name |-> "home", color |-> "#000000"]
  /\ tabTree = <<>>

CardInit(maxc) ==
  /\ props \in PropsSpace(maxc)
  /\ tree = <<>>
  /\ calls = NoCalls
  /\ taps = NoTaps
  /\ threw = FALSE

\* the toolbar with its taps
Init == CardInit(TapMaxCount) /\ TabIdle

Next ==
  \/ Mount
  \/ RerenderSet(TapMaxCount)
  \/ RerenderDrop
  \/ \E c \in Controls : Tap(c)

Spec == Init /\ [][Next]_vars

\* the toolbar's rendering over a wider range of counts
RenderInit == CardInit(MaxCount) /\ TabIdle

RenderNext ==
  \/ Mount
  \/ RerenderSet(MaxCount)
  \/ RerenderDrop

RenderSpec == RenderInit /\ [][RenderNext]_vars

\* the tab icon
TabInit ==
  /\ CardIdle
  /\ tabProps \in TabPropsSpace
  /\ tabTree = <<>>

TabNext ==
  \/ TabMount
  \/ TabRerenderSet
  \/ TabRerenderDrop

TabSpec == TabInit /\ [][TabNext]_vars

(***************************************************************************)
(* Properties.                                                             *)
(***************************************************************************)
Rendered == tree # <<>>

TabRendered == tabTree # <<>>

\* the caller passed hideCommentButton = true at the last render
HidePassed == "hideCommentButton" \in DOMAIN props /\ props.hideCommentButton

DigitValue(ch) ==
  CASE ch = "0" -> 0 [] ch = "1" -> 1 [] ch = "2" -> 2 [] ch = "3" -> 3
    [] ch = "4" -> 4 [] ch = "5" -> 5 [] ch = "6" -> 6 [] ch = "7" -> 7
    [] ch = "8" -> 8 [] ch = "9" -> 9 [] OTHER -> -1

RECURSIVE DecimalValue(_)
DecimalValue(txt) ==
  IF txt = <<>> THEN 0
  ELSE 10 * DecimalValue(SubSeq(txt, 1, Len(txt) - 1))
         + DigitValue(txt[Len(txt)])

\* txt is the decimal numeral of n: digits only, no leading zero
IsDecimalOf(txt, n) ==
  /\ Len(txt) >= 1
  /\ \A i \in 1..Len(txt) : DigitValue(txt[i]) >= 0
  /\ (Len(txt) > 1 => txt[1] # "0")
  /\ DecimalValue(txt) = n

\* the values a rendered tree shows
ShownIsHelpful(tr) == tr["helpful"].accessibilityState.selected

ShownIsSaved(tr) == tr["save"].accessibilityState.selected

ShownHelpfulCount(tr) ==
  LET txt == tr["helpful"].text.children
  IN IF txt[Len(txt)] = ")" THEN DecimalValue(SubSeq(txt, 4, Len(txt) - 1))
     ELSE 0

ShownCommentCount(tr) == DecimalValue(tr["comment"].text.children)

OwnCallback(c) ==
  CASE c = "comment" -> "onCommentPress"
    [] c = "helpful" -> "onHelpfulPress"
    [] c = "share" -> "onSharePress"
    [] c = "save" -> "onSavePress"

\* C1: getIconName is total: home -> 'home', folder -> 'folder',
\* chat -> 'chatbubble', ai -> 'hardware-chip', and every other name gives the
\* fallback glyph 'help-circle'; the render always completes with a glyph.
GetIconNameTable ==
  TabRendered =>
    /\ tabProps.name = "home" => tabTree.icon.name = "home"
    /\ tabProps.name = "folder" => tabTree.icon.name = "folder"
    /\ tabProps.name = "chat" => tabTree.icon.name = "chatbubble"
    /\ tabProps.name = "ai" => tabTree.icon.name = "hardware-chip"
    /\ tabProps.name \notin {"home", "folder", "chat", "ai"}
         => tabTree.icon.name = "help-circle"

GetIconNameFallbackSeen ==
  /\ TabRendered
  /\ tabProps.name = "Home"
  /\ tabTree.icon.name = "help-circle"

\* C2: a tap on the save control invokes onSavePress exactly once when the
\* caller supplied it, and invokes no callback and raises no error when the
\* caller left it out.
SaveTapInvokesOnce ==
  [][taps'["save"] = taps["save"] + 1 =>
       /\ threw' = FALSE
       /\ IF "onSavePress" \in DOMAIN props
          THEN calls' = [calls EXCEPT !["onSavePress"] = @ + 1]
          ELSE calls' = calls]_vars

SaveTappedWithAndWithout ==
  /\ taps["save"] = 2
  /\ calls["onSavePress"] = 1
  /\ threw = FALSE

\* C3: a tap changes neither the props nor what is shown, and after every
\* render the flags and counts shown are those of the props the caller
\* passed.
ComponentKeepsNoState ==
  [][/\ taps' # taps => props' = props /\ tree' = tree
     /\ Rendered' =>
          /\ ShownIsHelpful(tree') = props'.isHelpful
          /\ ShownIsSaved(tree') = props'.isSaved
          /\ ShownHelpfulCount(tree') = props'.helpfulCount
          /\ "comment" \in DOMAIN tree'
               => ShownCommentCount(tree') = props'.commentCount]_vars

TappedSavedStillShown ==
  /\ Rendered
  /\ taps["save"] >= 1
  /\ taps["helpful"] >= 1
  /\ calls["onSavePress"] >= 1
  /\ ~props.isSaved
  /\ ~ShownIsSaved(tree)
  /\ props.helpfulCount = 1
  /\ ShownHelpfulCount(tree) = 1

\* C4: with hideCommentButton = true there is no comment control and the
\* mark-helpful control's left margin is 0; otherwise the comment control is
\* there and the margin is spacing.m. Mark-helpful, share and save are
\* rendered either way.
HideCommentButtonLayout ==
  Rendered =>
    LET margin == StyleValue(tree["helpful"].style, "marginLeft", Px(0))
    IN /\ {"helpful", "share", "save"} \subseteq DOMAIN tree
       /\ HidePassed => "comment" \notin DOMAIN tree /\ margin = Px(0)
       /\ ~HidePassed =>
            "comment" \in DOMAIN tree /\ margin = Theme("spacing.m")

CommentHiddenSeen ==
  /\ Rendered
  /\ HidePassed
  /\ DOMAIN tree = {"helpful", "share", "save"}
  /\ StyleValue(tree["helpful"].style, "marginLeft", Px(0)) = Px(0)

\* C5: the mark-helpful control's glyph, icon colour, text colour, label and
\* selected-state all follow isHelpful; no mixed variant is rendered.
HelpfulVariant ==
  Rendered =>
    LET el == tree["helpful"]
    IN IF props.isHelpful
       THEN /\ el.icon.name = "thumb-up"
            /\ el.icon.color = "colors.primary"
            /\ el.text.color = "colors.primary"
            /\ el.accessibilityLabel = <<"nugget.interaction.helpful">>
            /\ el.accessibilityState.selected = TRUE
       ELSE /\ el.icon.name = "thumb-up-outline"
            /\ el.icon.color = "colors.textSecondary"
            /\ el.text.color = "colors.textSecondary"
            /\ el.accessibilityLabel = <<"nugget.interaction.markHelpful">>
            /\ el.accessibilityState.selected = FALSE

HelpfulMarkedSeen ==
  /\ Rendered
  /\ props.isHelpful
  /\ tree["helpful"].icon.name = "thumb-up"
  /\ tree["helpful"].text.color = "colors.primary"

\* C6: the save control's glyph, colour, label and selected-state all follow
\* isSaved.
SaveVariant ==
  Rendered =>
    LET el == tree["save"]
    IN IF props.isSaved
       THEN /\ el.icon.name = "bookmark"
            /\ el.icon.color = "colors.primary"
            /\ el.accessibilityLabel = <<"profile.nuggetSaved">>
            /\ el.accessibilityState.selected = TRUE
       ELSE /\ el.icon.name = "bookmark-outline"
            /\ el.icon.color = "colors.textSecondary"
            /\ el.accessibilityLabel = <<"nugget.interaction.save">>
            /\ el.accessibilityState.selected = FALSE

SaveMarkedSeen ==
  /\ Rendered
  /\ props.isSaved
  /\ tree["save"].icon.name = "bookmark"
  /\ tree["save"].accessibilityLabel = <<"profile.nuggetSaved">>

\* C7: the mark-helpful text is the 'that helps' phrase, followed by "(n)"
\* exactly when helpfulCount = n > 0; for helpfulCount = 0 it holds no
\* parenthesis.
HelpfulCountSuffix ==
  Rendered =>
    LET txt == tree["helpful"].text.children
        n == props.helpfulCount
    IN /\ Len(txt) >= 2
       /\ txt[1] = "nugget.interaction.thatHelps"
       /\ txt[2] = " "
       /\ n = 0 => \A i \in 1..Len(txt) : txt[i] \notin {"(", ")"}
       /\ n > 0 =>
            /\ Len(txt) >= 5
            /\ txt[3] = "("
            /\ txt[Len(txt)] = ")"
            /\ IsDecimalOf(SubSeq(txt, 4, Len(txt) - 1), n)

HelpfulCountTenSeen ==
  /\ Rendered
  /\ props.helpfulCount = 10
  /\ tree["helpful"].text.children
       = <<"nugget.interaction.thatHelps", " ", "(", "1", "0", ")">>

\* C8: the comment control's count text is empty for commentCount = 0 and the
\* decimal count for commentCount > 0; its label is 'no comments' + 'comments'
\* for 0 and the count + 'comments' otherwise.
CommentCountShown ==
  (Rendered /\ "comment" \in DOMAIN tree) =>
    LET el == tree["comment"]
        n == props.commentCount
    IN /\ n = 0 =>
            /\ el.text.children = <<>>
            /\ el.accessibilityLabel
                 = <<"nugget.interaction.noComments", " ",
                     "nugget.interaction.comments">>
       /\ n > 0 =>
            /\ IsDecimalOf(el.text.children, n)
            /\ el.accessibilityLabel
                 = el.text.children
                     \o <<" ", "nugget.interaction.comments">>

CommentCountTenSeen ==
  /\ Rendered
  /\ "comment" \in DOMAIN tree
  /\ props.commentCount = 10
  /\ tree["comment"].text.children = <<"1", "0">>

\* C9: for every name, also one outside {home, folder, chat, ai}, the tab
\* icon's container has role "image" and its label is the name passed in;
\* where the resolved glyph id differs from the name, the label is not the
\* glyph id.
TabLabelIsName ==
  TabRendered =>
    /\ tabTree.accessible
    /\ tabTree.accessibilityRole = "image"
    /\ tabTree.accessibilityLabel = tabProps.name
    /\ tabTree.icon.name # tabProps.name
         => tabTree.accessibilityLabel # tabTree.icon.name

TabLabelUnknownSeen ==
  /\ TabRendered
  /\ tabProps.name = "settings"
  /\ tabTree.icon.name = "help-circle"
  /\ tabTree.accessibilityLabel = "settings"

\* C10: a tap on a control invokes no callback but that control's own, and
\* while hideCommentButton is true no tap is on the comment control or
\* invokes onCommentPress.
TapInvokesOwnCallbackOnly ==
  [][\A c \in Controls :
       taps'[c] = taps[c] + 1 =>
         /\ \A f \in CallbackProps :
              calls'[f] # calls[f] => f = OwnCallback(c)
         /\ HidePassed =>
              c # "comment" /\ calls'["onCommentPress"] = calls["onCommentPress"]
    ]_vars

ShareTappedCommentHidden ==
  /\ Rendered
  /\ HidePassed
  /\ CallbackProps \subseteq DOMAIN props
  /\ taps["share"] = 1
  /\ taps["helpful"] = 1
  /\ calls = [f \in CallbackProps |->
                IF f \in {"onSharePress", "onHelpfulPress"} THEN 1 ELSE 0]

====
